---- MODULE Spec2Model ----
(***************************************************************************)
(* Ledger engine of remesafe: transaction classification, reconciliation,  *)
(* bank-statement import and incomplete-transaction assignment, modelled   *)
(* over the relational store (rv_cuentas, rv_transaction, company_user).   *)
(*                                                                         *)
(* Money is counted in cents, so the 0.01 tolerance of the code is 1.      *)
(* A nullable column is a set: {} is NULL and {v} is the value v.          *)
(*                                                                         *)
(* Each family of operations has its own specification over the same       *)
(* variables: Spec (classification, reconciliation), SpecImport (statement *)
(* import), SpecAssign (assignment, smart bulk assignment), SpecBulk (bulk *)
(* assignment), SpecFailure (a store that rejects statements), SpecRace    *)
(* (two assignment calls interleaved) and SpecOwner (the routes, requested *)
(* by any sender).                                                         *)
(***************************************************************************)
EXTENDS Integers, Sequences, FiniteSets, TLC

VARIABLES
  accounts,   \* rv_cuentas: account id -> row
  txns,       \* rv_transaction: rows in insertion order
  nextId,     \* AUTO_INCREMENT counter of rv_transaction
  statement,  \* the bank statement the client holds (BankStatement payload)
  last,       \* the last request and the result returned for it
  calls,      \* the assignAccountToTransaction calls in flight, per handler
  caller      \* the user who sent the request being served, NULL if none

vars == <<accounts, txns, nextId, statement, last, calls, caller>>

----------------------------------------------------------------------------
(* Bounds *)

MaxBal   == 2   \* balances entered by a user range over 0..MaxBal cents
MaxAmt   == 1   \* a statement line amounts to at most MaxAmt cents
MaxLines == 2   \* lines of one statement
MaxTxns  == 2   \* rows of rv_transaction
MaxAccounts == 8 \* rows of rv_cuentas

----------------------------------------------------------------------------
(* Program constants *)

Tolerance == 1        \* 0.01, in cents
UNASSIGNED == "0"     \* sentinel of a leg that holds no account
NULL == {}

AccountTypes == {"asset", "liability", "equity", "income", "expense"}
Sides == {"debit", "credit"}

Abs(x) == IF x < 0 THEN -x ELSE x

RECURSIVE SumAmounts(_)
SumAmounts(lines) ==
  IF lines = <<>> THEN 0 ELSE Head(lines).amount + SumAmounts(Tail(lines))

----------------------------------------------------------------------------
(* The store at start-up *)

Users == {1, 2}

\* company_user: the companies a user is a member of
company_user ==
  {[company_id |-> 1, user_id |-> 1], [company_id |-> 2, user_id |-> 2],
   [company_id |-> 2, user_id |-> 1]}

Acc(code, cat, type, user, company, active, bal) ==
  [code |-> code, category |-> cat, account_type |-> type, user |-> user,
   company |-> company, active |-> active, balance |-> bal]

InitAccounts(b) ==
  <<Acc("A1", {"asset"},     {"asset"},     1, 1, 1, b),
    Acc("L1", {"liability"}, {"liability"}, 1, 1, 1, b),
    Acc("E1", {"expense"},   {"expense"},   2, 2, 1, b),
    Acc("I1", {"income"},    {"income"},    2, 2, 0, b),
    Acc("Q1", {"equity"},    NULL,          1, 1, 1, b),
    Acc("N1", NULL,          {"asset"},     2, 2, 1, b)>>

AccountIdInputs == 1..7          \* 7 is the id of no account
Balances == 0..MaxBal

OptTypes == {NULL} \cup {{t} : t \in AccountTypes}

LineAmounts == (-1..MaxAmt) \ {0}
Lines == [amount : LineAmounts, type : Sides]
LineSeqs == UNION {[1..n -> Lines] : n \in 0..MaxLines}
Statements ==
  [openingBalance : Balances, closingBalance : Balances, transactions : LineSeqs]

\* a statement of two lines, one of each type, whose amounts add up
SampleStatement ==
  [openingBalance |-> 0, closingBalance |-> 2,
   transactions |-> <<[amount |-> 1, type |-> "debit"],
                      [amount |-> 1, type |-> "credit"]>>]

NoRequest == [op |-> "none"]

\* two request handlers run side by side (one Node.js event loop, a pool of
\* connections: each await pool.execute lets the other handler run)
Procs == {1, 2}
IdleCall == [pc |-> "idle"]

\* no call in flight, no request being served
NoSession == calls = [p \in Procs |-> IdleCall] /\ caller = NULL

\* a step that is no step of a call in flight and serves no HTTP request
Direct == UNCHANGED <<calls, caller>>

----------------------------------------------------------------------------
(* Rows of rv_transaction *)

Txn(id, name, amount, balancedebit, balancecredit, debitacc, creditacc, company, status) ==
  [id |-> id, name |-> name, debit |-> amount, credit |-> amount,
   balancedebit |-> balancedebit, balancecredit |-> balancecredit,
   debitacc |-> debitacc, creditacc |-> creditacc,
   company |-> company, status |-> status]

TxnIds(ledger) == {ledger[i].id : i \in DOMAIN ledger}
RowOf(ledger, id) == CHOOSE r \in {ledger[i] : i \in DOMAIN ledger} : r.id = id

\* account.company || 1
CompanyOrDefault(account) == IF account.company = 0 THEN 1 ELSE account.company

----------------------------------------------------------------------------
(* classifyTransaction *)

\* classifyTransaction without the reversal cases
classifyTransaction_noReversal(transactionType, otherAccountType) ==
  IF otherAccountType = NULL THEN "transfer"
  ELSE IF transactionType = "credit"
       THEN IF otherAccountType = {"income"} THEN "income" ELSE "transfer"
       ELSE IF otherAccountType = {"expense"} THEN "expense" ELSE "transfer"

classifyTransaction(transactionType, otherAccountType) ==
  IF otherAccountType = NULL THEN "transfer"
  ELSE IF transactionType = "credit"
       THEN IF otherAccountType = {"income"} THEN "income"
            ELSE IF otherAccountType = {"expense"} THEN "income"
            ELSE "transfer"
       ELSE IF otherAccountType = {"expense"} THEN "expense"
            ELSE IF otherAccountType = {"income"} THEN "expense"
            ELSE "transfer"

ClassifyTransaction(transactionType, otherAccountType) ==
  /\ last' = [op |-> "classify", transactionType |-> transactionType,
              otherAccountType |-> otherAccountType,
              classification |-> classifyTransaction(transactionType, otherAccountType)]
  /\ UNCHANGED <<accounts, txns, nextId, statement>>

----------------------------------------------------------------------------
(* createReconciliationTransaction *)

\* the epsilon test with its comparison inverted
AlreadyReconciled_inverted(difference) == Abs(difference) > Tolerance

AlreadyReconciled(difference) == Abs(difference) < Tolerance

ReconciliationRow(id, account, bankBalance, difference) ==
  Txn(id, "Bank Reconciliation", Abs(difference),
      IF difference < 0 THEN {bankBalance} ELSE NULL,
      IF difference > 0 THEN {bankBalance} ELSE NULL,
      IF difference < 0 THEN account.code ELSE UNASSIGNED,
      IF difference > 0 THEN account.code ELSE UNASSIGNED,
      CompanyOrDefault(account), "Completed")

SetBalance(accs, accountId, newBalance) ==
  [accs EXCEPT ![accountId].balance = newBalance]

CreateReconciliationTransaction(accountId, bankBalance) ==
  LET req == [op |-> "reconcile", accountId |-> accountId, bankBalance |-> bankBalance]
  IN
  IF accountId \notin DOMAIN accounts
  THEN /\ last' = req @@ [success |-> FALSE, error |-> {"Account not found"},
                          transaction |-> NULL]
       /\ UNCHANGED <<accounts, txns, nextId, statement>>
  ELSE LET account == accounts[accountId]
           currentBalance == account.balance
           difference == bankBalance - currentBalance
       IN IF AlreadyReconciled(difference)
          THEN /\ last' = req @@ [success |-> TRUE,
                                  error |-> {"Account is already reconciled - no adjustment needed"},
                                  transaction |-> NULL]
               /\ UNCHANGED <<accounts, txns, nextId, statement>>
          ELSE /\ Len(txns) < MaxTxns
               /\ txns' = Append(txns, ReconciliationRow(nextId, account, bankBalance, difference))
               /\ nextId' = nextId + 1
               /\ accounts' = SetBalance(accounts, accountId, bankBalance)
               /\ last' = req @@ [success |-> TRUE, error |-> NULL,
                                  transaction |-> {[id |-> nextId,
                                                    difference |-> difference,
                                                    previousBalance |-> currentBalance,
                                                    newBalance |-> bankBalance]}]
               /\ UNCHANGED statement

----------------------------------------------------------------------------
(* importBankStatement *)

\* the running-balance validation without Math.abs
StatementBalances_noAbs(runningBalance, closingBalance) ==
  ~(runningBalance - closingBalance > Tolerance)

\* the statement passes the running-balance validation
StatementBalances(runningBalance, closingBalance) ==
  ~(Abs(runningBalance - closingBalance) > Tolerance)

NeedsOpeningAdjustment(balance, openingBalance) ==
  Abs(balance - openingBalance) > Tolerance

\* the direction test that forgets the expense accounts
debitIncreasesBalance_assetOnly(accountType) == accountType = {"asset"}

debitIncreasesBalance(accountType) ==
  accountType = {"asset"} \/ accountType = {"expense"}

\* the column importBankStatement reads the account type from
ImportAccountType(account) == account.category

OpeningAdjustmentRow(id, account, openingBalance) ==
  LET balanceDifference == openingBalance - account.balance
      onDebit == IF debitIncreasesBalance(ImportAccountType(account))
                 THEN balanceDifference > 0
                 ELSE ~(balanceDifference > 0)
  IN Txn(id, "Opening Balance Adjustment", Abs(balanceDifference),
         IF onDebit THEN {openingBalance} ELSE NULL,
         IF onDebit THEN NULL ELSE {openingBalance},
         IF onDebit THEN account.code ELSE UNASSIGNED,
         IF onDebit THEN UNASSIGNED ELSE account.code,
         CompanyOrDefault(account), "Statement Import")

\* an import that posts the whole statement as one row
StatementRows_aggregated(lines, account, currentBalance, id) ==
  IF lines = <<>> THEN <<>>
  ELSE <<Txn(id, "Statement Line", Abs(SumAmounts(lines)),
             {currentBalance + SumAmounts(lines)}, NULL,
             account.code, UNASSIGNED, CompanyOrDefault(account),
             "Statement Import")>>

RECURSIVE StatementRows(_, _, _, _)
StatementRows(lines, account, currentBalance, id) ==
  IF lines = <<>> THEN <<>>
  ELSE LET statementTxn == Head(lines)
           amount == Abs(statementTxn.amount)
           isDebit == statementTxn.type = "debit"
           newBalance == IF isDebit THEN currentBalance + amount
                                    ELSE currentBalance - amount
           row == Txn(id, "Statement Line", amount,
                      IF isDebit THEN {newBalance} ELSE NULL,
                      IF isDebit THEN NULL ELSE {newBalance},
                      IF isDebit THEN account.code ELSE UNASSIGNED,
                      IF isDebit THEN UNASSIGNED ELSE account.code,
                      CompanyOrDefault(account), "Statement Import")
       IN <<row>> \o StatementRows(Tail(lines), account, newBalance, id + 1)

\* an import that posts nothing for an account whose code is already on a
\* statement row of the ledger
ImportRows_dedup(account, stmt, id) ==
  IF \E i \in DOMAIN txns :
       /\ txns[i].name = "Statement Line"
       /\ account.code \in {txns[i].debitacc, txns[i].creditacc}
  THEN <<>>
  ELSE StatementRows(stmt.transactions, account, stmt.openingBalance, id)

\* the rows importBankStatement inserts, in insertion order
ImportRows(account, stmt, id) ==
  LET opening == IF NeedsOpeningAdjustment(account.balance, stmt.openingBalance)
                 THEN <<OpeningAdjustmentRow(id, account, stmt.openingBalance)>>
                 ELSE <<>>
  IN opening \o StatementRows(stmt.transactions, account, stmt.openingBalance,
                              id + Len(opening))

\* the error importBankStatement returns before it writes, NULL if none
ImportError(accountId, stmt) ==
  IF accountId \notin DOMAIN accounts THEN {"Account not found"}
  ELSE IF ImportAccountType(accounts[accountId]) = NULL THEN {"Account type is not set"}
  ELSE IF ~StatementBalances(stmt.openingBalance + SumAmounts(stmt.transactions),
                             stmt.closingBalance)
       THEN {"Statement doesn't balance"}
  ELSE NULL

importBankStatement(accountId, stmt, via) ==
  LET req == [op |-> "import", via |-> via, accountId |-> accountId, called |-> TRUE]
      error == ImportError(accountId, stmt)
  IN IF error # NULL
     THEN /\ last' = req @@ [success |-> FALSE, error |-> error, transactions |-> <<>>]
          /\ UNCHANGED <<accounts, txns, nextId, statement>>
     ELSE LET rows == ImportRows(accounts[accountId], stmt, nextId)
          IN /\ Len(txns) + Len(rows) <= MaxTxns
             /\ txns' = txns \o rows
             /\ nextId' = nextId + Len(rows)
             /\ accounts' = SetBalance(accounts, accountId, stmt.closingBalance)
             /\ last' = req @@ [success |-> TRUE, error |-> NULL, transactions |-> rows]
             /\ UNCHANGED statement

\* a direct call of the library function with the statement as it is
ImportBankStatement(accountId) == importBankStatement(accountId, statement, "library")

(* POST /api/import-statement/[accountId] *)

RouteError(accountId, stmt) ==
  IF accountId = 0 THEN {"Valid account ID is required"}
  ELSE IF Len(stmt.transactions) = 0 THEN {"At least one transaction is required"}
  ELSE IF \E i \in DOMAIN stmt.transactions : stmt.transactions[i].amount <= 0
       THEN {"Transaction amount must be positive"}
  ELSE NULL

\* the handler on a request body stmt; via names the sender of the request
importStatementPOST(accountId, stmt, via) ==
  IF RouteError(accountId, stmt) # NULL
  THEN /\ last' = [op |-> "import", via |-> via, accountId |-> accountId,
                   called |-> FALSE, success |-> FALSE,
                   error |-> RouteError(accountId, stmt), transactions |-> <<>>]
       /\ UNCHANGED <<accounts, txns, nextId, statement>>
  ELSE importBankStatement(accountId, stmt, via)

ImportStatementPOST(accountId) == importStatementPOST(accountId, statement, "route")

(* StatementImportModal: the dialog holds the statement with signed line
   amounts, validates it and posts it with the amounts made absolute *)

\* opening balance plus the signed amounts of the lines
calculateRunningBalance(stmt) == stmt.openingBalance + SumAmounts(stmt.transactions)

getBalanceDifference(stmt) == calculateRunningBalance(stmt) - stmt.closingBalance

\* the lines the dialog submits: amount # 0 (every line has a description)
validTransactions(stmt) == SelectSeq(stmt.transactions, LAMBDA txn : txn.amount # 0)

\* the error handleSubmit shows instead of posting, NULL if it posts
DialogError(stmt) ==
  IF Len(validTransactions(stmt)) = 0 THEN {"Please add at least one valid transaction"}
  ELSE IF Abs(getBalanceDifference(stmt)) > Tolerance
       THEN {"Statement doesn't balance. Difference"}
  ELSE NULL

\* the request body: amount: Math.abs(txn.amount), the other fields as they are
transactionsForSubmit(stmt) ==
  [stmt EXCEPT !.transactions =
     [i \in DOMAIN validTransactions(stmt) |->
        [validTransactions(stmt)[i] EXCEPT !.amount = Abs(@)]]]

\* handleSubmit of the dialog opened for the account accountId
HandleSubmit(accountId) ==
  IF DialogError(statement) # NULL
  THEN /\ last' = [op |-> "import", via |-> "dialog", accountId |-> accountId,
                   called |-> FALSE, success |-> FALSE,
                   error |-> DialogError(statement), transactions |-> <<>>]
       /\ UNCHANGED <<accounts, txns, nextId, statement>>
  ELSE importStatementPOST(accountId, transactionsForSubmit(statement), "dialog")

----------------------------------------------------------------------------
(* The store rejects a statement of createReconciliationTransaction or of
   importBankStatement (connection lost, constraint violation): pool.execute
   throws and the catch block returns the generic failure.  writesDone is the
   number of writes the store had accepted before: each pool.execute commits
   on its own, nothing takes them back. *)

CreateReconciliationTransactionStoreFailure(accountId, bankBalance, writesDone) ==
  LET req == [op |-> "reconcile", accountId |-> accountId, bankBalance |-> bankBalance]
      failure == req @@ [success |-> FALSE,
                         error |-> {"Failed to create reconciliation transaction"},
                         transaction |-> NULL]
  IN IF writesDone = 0
     THEN \* the SELECT or the INSERT is rejected
          /\ last' = failure
          /\ UNCHANGED <<accounts, txns, nextId, statement>>
     ELSE \* the INSERT went through, the UPDATE of the balance is rejected
          /\ accountId \in DOMAIN accounts
          /\ ~AlreadyReconciled(bankBalance - accounts[accountId].balance)
          /\ Len(txns) < MaxTxns
          /\ txns' = Append(txns, ReconciliationRow(nextId, accounts[accountId], bankBalance,
                                                    bankBalance - accounts[accountId].balance))
          /\ nextId' = nextId + 1
          /\ last' = failure
          /\ UNCHANGED <<accounts, statement>>

ImportBankStatementStoreFailure(accountId, writesDone) ==
  LET req == [op |-> "import", via |-> "library", accountId |-> accountId,
              called |-> TRUE]
      failure == req @@ [success |-> FALSE,
                         error |-> {"Failed to import bank statement"},
                         transactions |-> <<>>]
  IN IF writesDone = 0
     THEN \* the SELECT or the first INSERT is rejected
          /\ last' = failure
          /\ UNCHANGED <<accounts, txns, nextId, statement>>
     ELSE \* writesDone INSERTs went through, the next INSERT or the UPDATE
          \* of the balance is rejected
          /\ ImportError(accountId, statement) = NULL
          /\ LET rows == ImportRows(accounts[accountId], statement, nextId)
             IN /\ writesDone <= Len(rows)
                /\ Len(txns) + writesDone <= MaxTxns
                /\ txns' = txns \o SubSeq(rows, 1, writesDone)
                /\ nextId' = nextId + writesDone
          /\ last' = failure
          /\ UNCHANGED <<accounts, statement>>

----------------------------------------------------------------------------
(* assignAccountToTransaction *)

\* SELECT ... FROM rv_cuentas WHERE code = ? AND active = 1, without the flag
ActiveAccountExists_anyFlag(code) ==
  \E id \in DOMAIN accounts : accounts[id].code = code

\* SELECT ... FROM rv_cuentas WHERE code = ? AND active = 1 returns a row
ActiveAccountExists(code) ==
  \E id \in DOMAIN accounts : accounts[id].code = code /\ accounts[id].active = 1

\* UPDATE rv_transaction SET debitacc|creditacc = ? WHERE id = ?
SetLeg(ledger, id, isDebit, code) ==
  [i \in DOMAIN ledger |->
     IF ledger[i].id # id THEN ledger[i]
     ELSE IF isDebit THEN [ledger[i] EXCEPT !.debitacc = code]
                     ELSE [ledger[i] EXCEPT !.creditacc = code]]

\* the leg test that lets an assigned leg through
LegIsAssigned_never(transaction, isDebitAccount) == FALSE

LegIsAssigned(transaction, isDebitAccount) ==
  IF isDebitAccount THEN transaction.debitacc # UNASSIGNED
                    ELSE transaction.creditacc # UNASSIGNED

AssignAccountToTransaction(transactionId, assignedAccountCode, isDebitAccount) ==
  LET req == [op |-> "assign", transactionId |-> transactionId,
              assignedAccountCode |-> assignedAccountCode,
              isDebitAccount |-> isDebitAccount]
      error ==
        IF ~ActiveAccountExists(assignedAccountCode)
        THEN {"Assigned account not found or inactive"}
        ELSE IF transactionId \notin TxnIds(txns) THEN {"Transaction not found"}
        ELSE IF LegIsAssigned(RowOf(txns, transactionId), isDebitAccount)
             THEN IF isDebitAccount THEN {"Debit account is already assigned"}
                                    ELSE {"Credit account is already assigned"}
        ELSE NULL
  IN /\ last' = req @@ [success |-> error = NULL, error |-> error]
     /\ txns' = IF error = NULL
                THEN SetLeg(txns, transactionId, isDebitAccount, assignedAccountCode)
                ELSE txns
     /\ UNCHANGED <<accounts, nextId, statement>>

----------------------------------------------------------------------------
(* assignAccountToTransaction, one await at a time.  The function runs two
   SELECTs and one UPDATE through pool.execute, each on its own connection
   and in its own implicit transaction; at every await the event loop may
   run a step of another request handler. *)

AssignReturn(p, success, error) ==
  calls' = [calls EXCEPT ![p] = [@ EXCEPT !.pc = "returned",
                                          !.success = success,
                                          !.error = error]]

\* a handler that is not inside a call enters assignAccountToTransaction
AssignCall(p, transactionId, assignedAccountCode, isDebitAccount) ==
  /\ calls[p].pc \in {"idle", "returned"}
  /\ calls' = [calls EXCEPT ![p] = [pc |-> "selectAccount",
                                    transactionId |-> transactionId,
                                    assignedAccountCode |-> assignedAccountCode,
                                    isDebitAccount |-> isDebitAccount,
                                    success |-> FALSE, error |-> NULL]]
  /\ UNCHANGED <<accounts, txns, nextId, statement, last, caller>>

\* SELECT ... FROM rv_cuentas WHERE code = ? AND active = 1, and the test of
\* its result
AssignSelectAccount(p) ==
  /\ calls[p].pc = "selectAccount"
  /\ IF ActiveAccountExists(calls[p].assignedAccountCode)
     THEN calls' = [calls EXCEPT ![p].pc = "selectTransaction"]
     ELSE AssignReturn(p, FALSE, {"Assigned account not found or inactive"})
  /\ UNCHANGED <<accounts, txns, nextId, statement, last, caller>>

\* SELECT * FROM rv_transaction WHERE id = ?, and the tests of the row read
AssignSelectTransaction(p) ==
  /\ calls[p].pc = "selectTransaction"
  /\ IF calls[p].transactionId \notin TxnIds(txns)
     THEN AssignReturn(p, FALSE, {"Transaction not found"})
     ELSE IF LegIsAssigned(RowOf(txns, calls[p].transactionId), calls[p].isDebitAccount)
          THEN AssignReturn(p, FALSE,
                            IF calls[p].isDebitAccount
                            THEN {"Debit account is already assigned"}
                            ELSE {"Credit account is already assigned"})
          ELSE calls' = [calls EXCEPT ![p].pc = "update"]
  /\ UNCHANGED <<accounts, txns, nextId, statement, last, caller>>

\* UPDATE rv_transaction SET debitacc|creditacc = ? WHERE id = ?
AssignUpdate(p) ==
  /\ calls[p].pc = "update"
  /\ txns' = SetLeg(txns, calls[p].transactionId, calls[p].isDebitAccount,
                    calls[p].assignedAccountCode)
  /\ AssignReturn(p, TRUE, NULL)
  /\ UNCHANGED <<accounts, nextId, statement, last, caller>>

\* the store rejects the statement the call is about to run: the catch block
AssignStoreFailure(p) ==
  /\ calls[p].pc \in {"selectAccount", "selectTransaction", "update"}
  /\ AssignReturn(p, FALSE, {"Failed to assign account to transaction"})
  /\ UNCHANGED <<accounts, txns, nextId, statement, last, caller>>

----------------------------------------------------------------------------
(* importBankStatement, one store statement per step.  Every await
   pool.execute is a round trip to the store during which the other handler
   runs; the code between two awaits runs without interruption.  calls[p] is
   what the call of handler p holds in its local variables. *)

\* an UPDATE that writes the opening balance of the statement
ClosingBalanceWritten_opening(call) == call.statement.openingBalance

\* the balance the final UPDATE of a call writes
ClosingBalanceWritten(call) == call.statement.closingBalance

\* the result of a call: { success: true, transactions } or, from an early
\* return or the catch block, { success: false, error } and nothing else
ImportReturn(p, success, error) ==
  calls' = [calls EXCEPT ![p] =
              IF success
              THEN [@ EXCEPT !.pc = "returned", !.success = TRUE, !.error = error]
              ELSE [@ EXCEPT !.pc = "returned", !.success = FALSE, !.error = error,
                             !.balanceRead = NULL, !.pending = <<>>,
                             !.transactions = <<>>]]

\* a handler that is not inside a call enters importBankStatement
ImportCall(p, accountId, stmt) ==
  /\ calls[p].pc \in {"idle", "returned"}
  /\ calls' = [calls EXCEPT ![p] = [pc |-> "selectAccount", accountId |-> accountId,
                                    statement |-> stmt, balanceRead |-> NULL,
                                    pending |-> <<>>, transactions |-> <<>>,
                                    success |-> FALSE, error |-> NULL]]
  /\ UNCHANGED <<accounts, txns, nextId, statement, last, caller>>

\* SELECT * FROM rv_cuentas WHERE id = ?, the validations, and the rows the
\* call is going to insert, computed from the account row it read
ImportSelectAccount(p) ==
  /\ calls[p].pc = "selectAccount"
  /\ LET error == ImportError(calls[p].accountId, calls[p].statement)
     IN IF error # NULL
        THEN ImportReturn(p, FALSE, error)
        ELSE calls' = [calls EXCEPT ![p] =
               [@ EXCEPT !.pc = "write",
                         !.balanceRead = {accounts[calls[p].accountId].balance},
                         !.pending = ImportRows(accounts[calls[p].accountId],
                                                calls[p].statement, 0)]]
  /\ UNCHANGED <<accounts, txns, nextId, statement, last, caller>>

\* one INSERT INTO rv_transaction; the store gives the row the next id
ImportInsert(p) ==
  /\ calls[p].pc = "write"
  /\ calls[p].pending # <<>>
  /\ Len(txns) < MaxTxns
  /\ LET row == [Head(calls[p].pending) EXCEPT !.id = nextId]
     IN /\ txns' = Append(txns, row)
        /\ nextId' = nextId + 1
        /\ calls' = [calls EXCEPT ![p] =
                       [@ EXCEPT !.pending = Tail(@),
                                 !.transactions = Append(@, row)]]
  /\ UNCHANGED <<accounts, statement, last, caller>>

\* UPDATE rv_cuentas SET balance = ? WHERE id = ?, then return success
ImportUpdate(p) ==
  /\ calls[p].pc = "write"
  /\ calls[p].pending = <<>>
  /\ accounts' = SetBalance(accounts, calls[p].accountId, ClosingBalanceWritten(calls[p]))
  /\ ImportReturn(p, TRUE, NULL)
  /\ UNCHANGED <<txns, nextId, statement, last, caller>>

\* the store rejects the statement the call is about to run: the catch block
ImportStoreFailure(p) ==
  /\ calls[p].pc \in {"selectAccount", "write"}
  /\ ImportReturn(p, FALSE, {"Failed to import bank statement"})
  /\ UNCHANGED <<accounts, txns, nextId, statement, last, caller>>

----------------------------------------------------------------------------
(* The routes of reconcile and assign-account.  Like the import route they
   are plain exported POST functions: they are not wrapped in
   createAuthHandler and read no header of the request, so the sender of the
   request is no input of theirs. *)

\* the sender of a request: a logged-in user, or NULL for a request that
\* carries no token
Callers == {NULL} \cup {{u} : u \in Users}

\* a step that serves a request sent by sender
SentBy(sender) == caller' = sender /\ UNCHANGED calls

\* POST /api/reconcile/[accountId]
ReconcilePOST(accountId, bankBalance) ==
  IF accountId = 0
  THEN /\ last' = [op |-> "reconcile", accountId |-> accountId,
                   bankBalance |-> bankBalance, success |-> FALSE,
                   error |-> {"Valid account ID is required"}, transaction |-> NULL]
       /\ UNCHANGED <<accounts, txns, nextId, statement>>
  ELSE CreateReconciliationTransaction(accountId, bankBalance)

\* POST /api/assign-account
AssignAccountPOST(transactionId, assignedAccountCode, isDebitAccount) ==
  IF transactionId = 0 \/ assignedAccountCode = ""
  THEN /\ last' = [op |-> "assign", transactionId |-> transactionId,
                   assignedAccountCode |-> assignedAccountCode,
                   isDebitAccount |-> isDebitAccount, success |-> FALSE,
                   error |-> {"Transaction ID, assigned account code, and account type (debit/credit) are required"}]
       /\ UNCHANGED <<accounts, txns, nextId, statement>>
  ELSE AssignAccountToTransaction(transactionId, assignedAccountCode, isDebitAccount)

----------------------------------------------------------------------------
(* POST /api/transactions/bulk-assign-smart *)

IsMember(user, company) ==
  \E cu \in company_user : cu.company_id = company /\ cu.user_id = user

\* the assigned account exists, is active and is the user's or his company's
SmartAccountRows(code, user) ==
  {id \in DOMAIN accounts :
     /\ accounts[id].code = code
     /\ accounts[id].active = 1
     /\ (accounts[id].user = user \/ IsMember(user, accounts[id].company))}

\* the selected rows the user has access to, through an account or a company
SmartTransactionRows(transactionIds, user) ==
  {i \in DOMAIN txns :
     /\ txns[i].id \in transactionIds
     /\ \/ \E id \in DOMAIN accounts :
             /\ accounts[id].code \in {txns[i].debitacc, txns[i].creditacc}
             /\ accounts[id].user = user
        \/ IsMember(user, txns[i].company)}

\* the leg choice that takes the debit leg whenever it is empty
SmartLeg_debitFirst(transaction) ==
  IF transaction.debitacc = UNASSIGNED THEN "debit"
  ELSE IF transaction.creditacc = UNASSIGNED THEN "credit"
  ELSE "skip"

\* the leg the handler fills, or "skip"
SmartLeg(transaction) ==
  IF transaction.debitacc # UNASSIGNED /\ transaction.creditacc # UNASSIGNED THEN "skip"
  ELSE IF transaction.debitacc = UNASSIGNED /\ transaction.creditacc # UNASSIGNED THEN "debit"
  ELSE IF transaction.creditacc = UNASSIGNED /\ transaction.debitacc # UNASSIGNED THEN "credit"
  ELSE "skip"

BulkAssignSmartPOST(user, transactionIds, assignedAccountCode) ==
  LET req == [op |-> "smart", user |-> user, transactionIds |-> transactionIds,
              assignedAccountCode |-> assignedAccountCode]
      rejected(msg) ==
        /\ last' = req @@ [status |-> 400, success |-> FALSE, error |-> {msg},
                           updatedCount |-> 0, skippedCount |-> 0]
        /\ UNCHANGED <<accounts, txns, nextId, statement>>
      rows == SmartTransactionRows(transactionIds, user)
  IN IF transactionIds = {} THEN rejected("Transaction IDs are required")
     ELSE IF SmartAccountRows(assignedAccountCode, user) = {}
          THEN rejected("Assigned account not found or access denied")
     ELSE IF rows = {} THEN rejected("No transactions found or access denied")
     ELSE LET updated == {i \in rows : SmartLeg(txns[i]) # "skip"}
          IN /\ txns' = [i \in DOMAIN txns |->
                           IF i \notin updated THEN txns[i]
                           ELSE IF SmartLeg(txns[i]) = "debit"
                                THEN [txns[i] EXCEPT !.debitacc = assignedAccountCode]
                                ELSE [txns[i] EXCEPT !.creditacc = assignedAccountCode]]
             /\ last' = req @@ [status |-> 200, success |-> TRUE, error |-> NULL,
                                updatedCount |-> Cardinality(updated),
                                skippedCount |-> Cardinality(rows \ updated)]
             /\ UNCHANGED <<accounts, nextId, statement>>

----------------------------------------------------------------------------
(* bulkAssignAccountToTransactions and POST /api/transactions/bulk-assign *)

\* the selection that does not ask whose account is on the leg
BulkOwnedRows_anyOwner(transactionIds, userId) ==
  {i \in DOMAIN txns :
     /\ txns[i].id \in transactionIds
     /\ \E id \in DOMAIN accounts :
          accounts[id].code \in {txns[i].debitacc, txns[i].creditacc}}

\* the selected rows with an account of the user on a leg: the rows the
\* verify query counts and the rows the UPDATE matches
BulkOwnedRows(transactionIds, userId) ==
  {i \in DOMAIN txns :
     /\ txns[i].id \in transactionIds
     /\ \E id \in DOMAIN accounts :
          /\ accounts[id].code \in {txns[i].debitacc, txns[i].creditacc}
          /\ accounts[id].user = userId}

\* SELECT COUNT(*) FROM rv_cuentas WHERE code = ? AND user = ? AND active = 1
BulkAccountCount(code, userId) ==
  Cardinality({id \in DOMAIN accounts :
                 /\ accounts[id].code = code
                 /\ accounts[id].user = userId
                 /\ accounts[id].active = 1})

\* UPDATE rv_transaction t SET t.debitacc|creditacc = ?, on one matched row
BulkSetLeg(row, isDebitAccount, code) ==
  IF isDebitAccount THEN [row EXCEPT !.debitacc = code]
                    ELSE [row EXCEPT !.creditacc = code]

\* via = "library": the call as its caller sees it (a value or an exception);
\* via = "route": the HTTP response of the handler that wraps the call.
\* storeFails: pool.execute rejects (store unreachable).
bulkAssignAccountToTransactions(transactionIds, assignedAccountCode, isDebitAccount, userId, storeFails, via) ==
  LET req == [op |-> "bulk", via |-> via, called |-> TRUE, userId |-> userId,
              transactionIds |-> transactionIds,
              assignedAccountCode |-> assignedAccountCode,
              isDebitAccount |-> isDebitAccount]
      rows == BulkOwnedRows(transactionIds, userId)
      throws == \/ storeFails
                \/ transactionIds = {}          \* IN () is refused by the store
                \/ rows = {}
                \/ BulkAccountCount(assignedAccountCode, userId) = 0
  IN IF throws
     THEN /\ last' = IF via = "route"
                     THEN req @@ [thrown |-> FALSE, status |-> 500,
                                  error |-> {"Failed to assign accounts to transactions"},
                                  updatedCount |-> 0]
                     ELSE req @@ [thrown |-> TRUE,
                                  error |-> {"Failed to bulk assign accounts to transactions"},
                                  updatedCount |-> 0]
          /\ UNCHANGED <<accounts, txns, nextId, statement>>
     ELSE /\ txns' = [i \in DOMAIN txns |->
                        IF i \in rows
                        THEN BulkSetLeg(txns[i], isDebitAccount, assignedAccountCode)
                        ELSE txns[i]]
          /\ last' = IF via = "route"
                     THEN req @@ [thrown |-> FALSE, status |-> 200, success |-> TRUE,
                                  error |-> NULL, updatedCount |-> Cardinality(rows)]
                     ELSE req @@ [thrown |-> FALSE, error |-> NULL,
                                  updatedCount |-> Cardinality(rows)]
          /\ UNCHANGED <<accounts, nextId, statement>>

\* a direct call of the library function
BulkAssignAccountToTransactions(transactionIds, assignedAccountCode, isDebitAccount, userId, storeFails) ==
  bulkAssignAccountToTransactions(transactionIds, assignedAccountCode, isDebitAccount,
                                  userId, storeFails, "library")

\* postHandler behind createAuthHandler: user is the authenticated user
BulkAssignPOST(user, transactionIds, assignedAccountCode, isDebitAccount, storeFails) ==
  IF transactionIds = {}
  THEN /\ last' = [op |-> "bulk", via |-> "route", called |-> FALSE, userId |-> user,
                   transactionIds |-> transactionIds,
                   assignedAccountCode |-> assignedAccountCode,
                   isDebitAccount |-> isDebitAccount,
                   thrown |-> FALSE, status |-> 400,
                   error |-> {"Transaction IDs array is required"},
                   updatedCount |-> 0]
       /\ UNCHANGED <<accounts, txns, nextId, statement>>
  ELSE bulkAssignAccountToTransactions(transactionIds, assignedAccountCode,
                                       isDebitAccount, user, storeFails, "route")

----------------------------------------------------------------------------
(* bulkDeleteTransactions and DELETE /api/transactions/bulk-delete *)

\* DELETE t FROM rv_transaction t WHERE t.id IN (...) AND EXISTS (an account
\* of the user on a leg): the EXISTS clause is the one of the bulk assignment.
\* via and storeFails as in bulkAssignAccountToTransactions.
bulkDeleteTransactions(transactionIds, userId, storeFails, via) ==
  LET req == [op |-> "delete", via |-> via, called |-> TRUE, userId |-> userId,
              transactionIds |-> transactionIds]
      rows == BulkOwnedRows(transactionIds, userId)
      throws == storeFails \/ transactionIds = {}     \* IN () is refused by the store
  IN IF throws
     THEN /\ last' = IF via = "route"
                     THEN req @@ [thrown |-> FALSE, status |-> 500,
                                  error |-> {"Failed to delete transactions"},
                                  deletedCount |-> 0]
                     ELSE req @@ [thrown |-> TRUE,
                                  error |-> {"Failed to bulk delete transactions"},
                                  deletedCount |-> 0]
          /\ UNCHANGED <<accounts, txns, nextId, statement>>
     ELSE /\ txns' = SelectSeq(txns, LAMBDA row :
                       \A i \in rows : txns[i].id # row.id)
          /\ last' = IF via = "route"
                     THEN req @@ [thrown |-> FALSE, status |-> 200, success |-> TRUE,
                                  error |-> NULL, deletedCount |-> Cardinality(rows)]
                     ELSE req @@ [thrown |-> FALSE, error |-> NULL,
                                  deletedCount |-> Cardinality(rows)]
          /\ UNCHANGED <<accounts, nextId, statement>>

\* a direct call of the library function
BulkDeleteTransactions(transactionIds, userId, storeFails) ==
  bulkDeleteTransactions(transactionIds, userId, storeFails, "library")

\* deleteHandler behind createAuthHandler: user is the authenticated user
BulkDeleteDELETE(user, transactionIds, storeFails) ==
  IF transactionIds = {}
  THEN /\ last' = [op |-> "delete", via |-> "route", called |-> FALSE, userId |-> user,
                   transactionIds |-> transactionIds, thrown |-> FALSE, status |-> 400,
                   error |-> {"Transaction IDs array is required"}, deletedCount |-> 0]
       /\ UNCHANGED <<accounts, txns, nextId, statement>>
  ELSE bulkDeleteTransactions(transactionIds, user, storeFails, "route")

----------------------------------------------------------------------------
(* The reports.  They select rows of rv_transaction by fecha, the date of the
   row: a day of January 2024.  NOW() is the start of the day Today. *)

Days == 1..3
Today == 3

\* a row of rv_transaction with its date
DatedRow(id, amount, debitacc, creditacc, company, fecha) ==
  Txn(id, "Payment", amount, NULL, NULL, debitacc, creditacc, company, "Completed")
    @@ [fecha |-> fecha]

\* a value bound to a placeholder of a query: a number, or the string
\* '2024-01-<val>' of a date
Num(n) == [kind |-> "number", val |-> n]
Date(d) == [kind |-> "date", val |-> d]

\* the number the store compares a bound value as when the column is numeric:
\* of a string it takes the leading digits
AsNumber(p) == IF p.kind = "number" THEN p.val ELSE 2024

\* t.fecha >= ? and t.fecha <= ?.  Against a number the store compares the
\* DATETIME as the number YYYYMMDDhhmmss, which is above every number bound here.
FechaAtLeast(fecha, p) == IF p.kind = "date" THEN fecha >= p.val ELSE TRUE
FechaAtMost(fecha, p) == IF p.kind = "date" THEN fecha <= p.val ELSE FALSE

\* t.fecha >= DATE_SUB(NOW(), INTERVAL ? HOUR), in hours
FechaWithinHours(fecha, p) == fecha * 24 >= Today * 24 - AsNumber(p)

(* getBalanceSheetData and GET /api/reports/balance-sheet *)

\* the placeholders of the query in the order they stand in its text: those
\* of dateFilter are in the ON clause of the join, before WHERE a.user = ?
BalanceSheetPlaceholders(dateFilter) ==
  CASE dateFilter = "interval" -> <<"hours", "user">>
    [] dateFilter = "range"    -> <<"from", "to", "user">>
    [] OTHER                   -> <<"user">>

\* pool.execute binds params to the placeholders by position
BalanceSheetBound(dateFilter, params, name) ==
  params[CHOOSE i \in DOMAIN BalanceSheetPlaceholders(dateFilter) :
           BalanceSheetPlaceholders(dateFilter)[i] = name]

\* the ON clause of the LEFT JOIN
BalanceSheetJoins(row, code, dateFilter, params) ==
  /\ code \in {row.debitacc, row.creditacc}
  /\ row.debitacc # UNASSIGNED /\ row.creditacc # UNASSIGNED
  /\ CASE dateFilter = "interval" ->
            FechaWithinHours(row.fecha, BalanceSheetBound(dateFilter, params, "hours"))
       [] dateFilter = "range" ->
            /\ FechaAtLeast(row.fecha, BalanceSheetBound(dateFilter, params, "from"))
            /\ FechaAtMost(row.fecha, BalanceSheetBound(dateFilter, params, "to"))
       [] OTHER -> TRUE

\* SUM(CASE WHEN t.creditacc = a.code THEN t.credit
\*          WHEN t.debitacc = a.code THEN -t.debit ELSE 0 END)
RECURSIVE BalanceSheetSum(_, _)
BalanceSheetSum(rows, code) ==
  IF rows = <<>> THEN 0
  ELSE (IF Head(rows).creditacc = code THEN Head(rows).credit
        ELSE IF Head(rows).debitacc = code THEN -Head(rows).debit
        ELSE 0) + BalanceSheetSum(Tail(rows), code)

\* the rows of the result, one for each group of the GROUP BY; userId is a
\* parameter of the function that the query does not use
getBalanceSheetData(userId, dateFilter, params) ==
  {LET joined == SelectSeq(txns, LAMBDA row :
                    BalanceSheetJoins(row, accounts[a].code, dateFilter, params))
   IN [id |-> a, code |-> accounts[a].code, category |-> accounts[a].category,
       balance |-> BalanceSheetSum(joined, accounts[a].code),
       transaction_count |-> Len(joined)] :
   a \in {a \in DOMAIN accounts :
            /\ accounts[a].user = AsNumber(BalanceSheetBound(dateFilter, params, "user"))
            /\ accounts[a].active = 1}}

\* hours of a predefined time frame
TimeFrameHours(timeFrame) ==
  CASE timeFrame = {"hour"}    -> 1
    [] timeFrame = {"day"}     -> 24
    [] timeFrame = {"month"}   -> 24 * 30
    [] timeFrame = {"3months"} -> 24 * 90
    [] timeFrame = {"6months"} -> 24 * 180
    [] OTHER                   -> 24

\* getHandler behind createAuthHandler: user is the authenticated user; the
\* query parameters timeFrame, startDate and endDate are NULL when absent
BalanceSheetGET(user, timeFrame, startDate, endDate) ==
  LET predefined == timeFrame # NULL /\ timeFrame # {"custom"}
      custom == ~predefined /\ startDate # NULL /\ endDate # NULL
      dateFilter == IF predefined THEN "interval" ELSE IF custom THEN "range" ELSE ""
      params == <<Num(user)>> \o
                (IF predefined THEN <<Num(TimeFrameHours(timeFrame))>>
                 ELSE IF custom THEN <<Date(CHOOSE d \in startDate : TRUE),
                                       Date(CHOOSE d \in endDate : TRUE)>>
                 ELSE <<>>)
  IN /\ last' = [op |-> "balanceSheet", user |-> user, timeFrame |-> timeFrame,
                 startDate |-> startDate, endDate |-> endDate,
                 dateFilter |-> dateFilter,
                 rows |-> getBalanceSheetData(user, dateFilter, params)]
     /\ UNCHANGED <<accounts, txns, nextId, statement>>

(* getProfitLossData and GET /api/profit-loss.  The request carries no
   currency parameter: the accounts of the model are of one currency. *)

\* the placeholders of the query in the order they stand in its text: the
\* BETWEEN of the join, then whereConditions joined in the order they were
\* pushed: a.user = ? first, t.company = ? after it
ProfitLossPlaceholders(entityId) ==
  <<"start", "end", "user">> \o (IF entityId # NULL THEN <<"company">> ELSE <<>>)

\* queryParams: startDate, endDate, then entityId if given, then userId
ProfitLossParams(startDate, endDate, userId, entityId) ==
  <<Date(startDate), Date(endDate)>>
    \o (IF entityId # NULL THEN <<Num(CHOOSE e \in entityId : TRUE)>> ELSE <<>>)
    \o <<Num(userId)>>

ProfitLossBound(entityId, params, name) ==
  params[CHOOSE i \in DOMAIN ProfitLossPlaceholders(entityId) :
           ProfitLossPlaceholders(entityId)[i] = name]

\* the ON clause of the join and the condition of WHERE on the joined row
ProfitLossJoins(row, code, entityId, params) ==
  /\ code \in {row.debitacc, row.creditacc}
  /\ FechaAtLeast(row.fecha, ProfitLossBound(entityId, params, "start"))
  /\ FechaAtMost(row.fecha, ProfitLossBound(entityId, params, "end"))
  /\ entityId # NULL
       => row.company = AsNumber(ProfitLossBound(entityId, params, "company"))

\* total_balance: credits minus debits of an income account, debits minus
\* credits of an expense account
RECURSIVE ProfitLossSum(_, _, _)
ProfitLossSum(rows, code, accountType) ==
  IF rows = <<>> THEN 0
  ELSE LET credited == IF Head(rows).creditacc = code THEN Head(rows).credit ELSE 0
           debited == IF Head(rows).debitacc = code THEN Head(rows).debit ELSE 0
       IN (CASE accountType = {"income"}  -> credited - debited
             [] accountType = {"expense"} -> debited - credited
             [] OTHER -> 0)
          + ProfitLossSum(Tail(rows), code, accountType)

\* the rows of the query: the groups that pass HAVING total_balance != 0
ProfitLossRows(entityId, params) ==
  LET total(a) == ProfitLossSum(
                    SelectSeq(txns, LAMBDA row :
                      ProfitLossJoins(row, accounts[a].code, entityId, params)),
                    accounts[a].code, accounts[a].account_type)
  IN {[id |-> a, code |-> accounts[a].code, account_type |-> accounts[a].account_type,
       total_balance |-> total(a)] :
      a \in {a \in DOMAIN accounts :
               /\ accounts[a].user = AsNumber(ProfitLossBound(entityId, params, "user"))
               /\ accounts[a].active = 1
               /\ accounts[a].account_type \in {{"income"}, {"expense"}}
               /\ total(a) # 0}}

\* reduce((sum, acc) => sum + Number(acc.total_balance), 0) over the rows of
\* the accounts 1..n
RECURSIVE ProfitLossTotal(_, _)
ProfitLossTotal(rows, n) ==
  IF n = 0 THEN 0
  ELSE (IF \E r \in rows : r.id = n
        THEN (CHOOSE r \in rows : r.id = n).total_balance ELSE 0)
       + ProfitLossTotal(rows, n - 1)

getProfitLossData(startDate, endDate, userId, entityId) ==
  LET rows == ProfitLossRows(entityId, ProfitLossParams(startDate, endDate, userId, entityId))
      income_accounts == {r \in rows : r.account_type = {"income"}}
      expense_accounts == {r \in rows : r.account_type = {"expense"}}
      total_income == ProfitLossTotal(income_accounts, Len(accounts))
      total_expenses == ProfitLossTotal(expense_accounts, Len(accounts))
  IN [income_accounts |-> income_accounts, expense_accounts |-> expense_accounts,
      total_income |-> total_income, total_expenses |-> total_expenses,
      net_profit |-> total_income - total_expenses]

\* getHandler behind createAuthHandler: start_date and end_date are NULL when
\* absent, entity_id is NULL or the id of a company
ProfitLossGET(user, startDate, endDate, entityId) ==
  LET req == [op |-> "profitLoss", user |-> user, startDate |-> startDate,
              endDate |-> endDate, entityId |-> entityId]
      start == CHOOSE d \in startDate : TRUE
      end == CHOOSE d \in endDate : TRUE
  IN /\ last' = IF startDate = NULL \/ endDate = NULL
                THEN req @@ [status |-> 400,
                             error |-> {"start_date and end_date parameters are required"}]
                ELSE IF start > end
                THEN req @@ [status |-> 400,
                             error |-> {"start_date must be before or equal to end_date"}]
                ELSE req @@ [status |-> 200, error |-> NULL]
                         @@ getProfitLossData(start, end, user, entityId)
     /\ UNCHANGED <<accounts, txns, nextId, statement>>

(* The reports on one account: getTransactionsByAccountCode,
   getTransactionSummaryByAccount and getExpensesByCategory *)

\* CASE WHEN t.debitacc = ? THEN 'debit' ELSE 'credit' END
TransactionType(row, accountCode) ==
  IF row.debitacc = accountCode THEN "debit" ELSE "credit"

\* CASE WHEN t.debitacc = ? THEN t.creditacc ELSE t.debitacc END
OtherAccountCode(row, accountCode) ==
  IF row.debitacc = accountCode THEN row.creditacc ELSE row.debitacc

\* account_type of the account that LEFT JOIN rv_cuentas finds for a leg,
\* NULL if it finds none
JoinedAccountType(code) ==
  IF \E a \in DOMAIN accounts : accounts[a].code = code
  THEN accounts[CHOOSE a \in DOMAIN accounts : accounts[a].code = code].account_type
  ELSE NULL

OtherAccountType(row, accountCode) == JoinedAccountType(OtherAccountCode(row, accountCode))

Classification(row, accountCode) ==
  classifyTransaction(TransactionType(row, accountCode), OtherAccountType(row, accountCode))

\* WHERE (t.debitacc = ? OR t.creditacc = ?) [AND t.fecha BETWEEN ? AND ?]:
\* the dates are NULL when absent, and filter only if both are given
AccountRows(accountCode, startDate, endDate) ==
  SelectSeq(txns, LAMBDA row :
    /\ accountCode \in {row.debitacc, row.creditacc}
    /\ (startDate # NULL /\ endDate # NULL)
         => /\ \A d \in startDate : FechaAtLeast(row.fecha, Date(d))
            /\ \A d \in endDate : FechaAtMost(row.fecha, Date(d)))

\* ORDER BY t.fecha DESC, t.id DESC
RECURSIVE NewestFirst(_)
NewestFirst(rows) ==
  IF rows = <<>> THEN <<>>
  ELSE LET first == CHOOSE i \in DOMAIN rows : \A j \in DOMAIN rows :
                      \/ rows[i].fecha > rows[j].fecha
                      \/ rows[i].fecha = rows[j].fecha /\ rows[i].id >= rows[j].id
       IN <<rows[first]>> \o NewestFirst(SelectSeq(rows, LAMBDA r : r.id # rows[first].id))

\* limit and offset are clamped to 1..500 and to 0.. ; the rows of the page
\* with their classification
getTransactionsByAccountCode(accountCode, limit, offset) ==
  LET limitInt == IF limit < 1 THEN 1 ELSE IF limit > 500 THEN 500 ELSE limit
      offsetInt == IF offset < 0 THEN 0 ELSE offset
      ordered == NewestFirst(AccountRows(accountCode, NULL, NULL))
      last_ == IF offsetInt + limitInt < Len(ordered) THEN offsetInt + limitInt
               ELSE Len(ordered)
      page == SubSeq(ordered, offsetInt + 1, last_)
  IN [i \in DOMAIN page |->
        [id |-> page[i].id, fecha |-> page[i].fecha,
         transaction_type |-> TransactionType(page[i], accountCode),
         other_account_type |-> OtherAccountType(page[i], accountCode),
         classification |-> Classification(page[i], accountCode)]]

\* the amount the summary adds: CASE WHEN t.debitacc = ? THEN t.credit ELSE t.debit END
SummaryAmount(row, accountCode) ==
  IF row.debitacc = accountCode THEN row.credit ELSE row.debit

RECURSIVE SummaryTotal(_, _, _)
SummaryTotal(rows, accountCode, classification) ==
  IF rows = <<>> THEN 0
  ELSE (IF Classification(Head(rows), accountCode) = classification
        THEN SummaryAmount(Head(rows), accountCode) ELSE 0)
       + SummaryTotal(Tail(rows), accountCode, classification)

getTransactionSummaryByAccount(accountCode, startDate, endDate) ==
  LET rows == AccountRows(accountCode, startDate, endDate)
      count(c) == Len(SelectSeq(rows, LAMBDA row : Classification(row, accountCode) = c))
      totalIncome == SummaryTotal(rows, accountCode, "income")
      totalExpenses == SummaryTotal(rows, accountCode, "expense")
  IN [totalIncome |-> totalIncome, totalExpenses |-> totalExpenses,
      netIncome |-> totalIncome - totalExpenses,
      incomeTransactions |-> count("income"),
      expenseTransactions |-> count("expense"),
      transferTransactions |-> count("transfer")]

\* the amount the breakdown adds: CASE WHEN t.debitacc = ? THEN t.debit ELSE t.credit END
CategoryAmount(row, accountCode) ==
  IF row.debitacc = accountCode THEN row.debit ELSE row.credit

RECURSIVE CategoryTotal(_, _)
CategoryTotal(rows, accountCode) ==
  IF rows = <<>> THEN 0
  ELSE CategoryAmount(Head(rows), accountCode) + CategoryTotal(Tail(rows), accountCode)

\* a HAVING clause that keeps only the groups above one cent
HavingTotalAmount_aboveOne(total_amount) == total_amount > 1

\* HAVING total_amount > 0
HavingTotalAmount(total_amount) == total_amount > 0

\* one row for each group of GROUP BY other_account_code, other_account_alias,
\* other_account_type, transaction_type that passes HAVING and is classified
\* as expense.  Alias and type follow from the code, and every expense group
\* is of transaction_type 'debit', so the rows differ in otherAccountCode.
getExpensesByCategory(accountCode, startDate, endDate) ==
  LET rows == AccountRows(accountCode, startDate, endDate)
      groups == {<<OtherAccountCode(rows[i], accountCode),
                   TransactionType(rows[i], accountCode)>> : i \in DOMAIN rows}
      members(g) == SelectSeq(rows, LAMBDA row :
                      /\ OtherAccountCode(row, accountCode) = g[1]
                      /\ TransactionType(row, accountCode) = g[2])
  IN {[otherAccountCode |-> g[1],
       totalAmount |-> CategoryTotal(members(g), accountCode),
       transactionCount |-> Len(members(g))] :
      g \in {g \in groups :
               /\ HavingTotalAmount(CategoryTotal(members(g), accountCode))
               /\ classifyTransaction(g[2], JoinedAccountType(g[1])) = "expense"}}

GetTransactionsByAccountCode(accountCode, limit) ==
  /\ last' = [op |-> "transactions", accountCode |-> accountCode, limit |-> limit,
              transactions |-> getTransactionsByAccountCode(accountCode, limit, 0)]
  /\ UNCHANGED <<accounts, txns, nextId, statement>>

\* GET /api/financial-summary/[accountCode]
GetTransactionSummaryByAccount(accountCode, startDate, endDate) ==
  /\ last' = [op |-> "summary", accountCode |-> accountCode,
              startDate |-> startDate, endDate |-> endDate,
              summary |-> getTransactionSummaryByAccount(accountCode, startDate, endDate)]
  /\ UNCHANGED <<accounts, txns, nextId, statement>>

\* the GET route that serves the breakdown of the account [accountCode]
GetExpensesByCategory(accountCode, startDate, endDate) ==
  /\ last' = [op |-> "expensesByCategory", accountCode |-> accountCode,
              startDate |-> startDate, endDate |-> endDate,
              expenses |-> getExpensesByCategory(accountCode, startDate, endDate)]
  /\ UNCHANGED <<accounts, txns, nextId, statement>>

----------------------------------------------------------------------------
(* createAccount and POST /api/accounts *)

\* the row INSERT INTO rv_cuentas writes: the statement names neither the
\* account_type nor the company column
NewAccount(code, category, balance, userId) ==
  Acc(code, {category}, NULL, userId, 0, 1, balance)

\* postHandler behind createAuthHandler: user is the authenticated user.
\* A JavaScript string is falsy only when it is empty, so !code lets "0"
\* through.  storeFails: the INSERT is rejected (store unreachable, or a
\* constraint of the table such as a unique key).
AccountsPOST(user, code, alias, category, balance, storeFails) ==
  LET req == [op |-> "createAccount", user |-> user, code |-> code,
              category |-> category]
  IN IF code = "" \/ alias = "" \/ category = ""
     THEN /\ last' = req @@ [status |-> 400,
                             error |-> {"Code, alias, and category are required"}]
          /\ UNCHANGED <<accounts, txns, nextId, statement>>
     ELSE IF storeFails
          THEN /\ last' = req @@ [status |-> 500, error |-> {"Failed to create account"}]
               /\ UNCHANGED <<accounts, txns, nextId, statement>>
          ELSE /\ Len(accounts) < MaxAccounts
               /\ accounts' = Append(accounts, NewAccount(code, category, balance, user))
               /\ last' = req @@ [status |-> 201, error |-> NULL]
               /\ UNCHANGED <<txns, nextId, statement>>

----------------------------------------------------------------------------
(* Specification *)

Init ==
  /\ accounts = InitAccounts(1)
  /\ txns = <<>>
  /\ nextId = 1
  /\ statement = SampleStatement
  /\ last = NoRequest
  /\ NoSession

Next ==
  \/ \E t \in Sides, o \in OptTypes : ClassifyTransaction(t, o) /\ Direct
  \/ \E a \in AccountIdInputs, b \in Balances :
       CreateReconciliationTransaction(a, b) /\ Direct

Spec == Init /\ [][Next]_vars

\* any statement within the bounds, imported into accounts that were created
\* with the least or the greatest balance
InitImport ==
  /\ \E b \in {0, MaxBal} : accounts = InitAccounts(b)
  /\ txns = <<>>
  /\ nextId = 1
  /\ statement \in Statements
  /\ last = NoRequest
  /\ NoSession

NextImport ==
  \/ \E a \in AccountIdInputs : ImportBankStatement(a) /\ Direct
  \/ \E a \in {0} \cup AccountIdInputs : ImportStatementPOST(a) /\ Direct

SpecImport == InitImport /\ [][NextImport]_vars

\* a row written by the ledger system that shares the store: no leg assigned
LegacyRow(id) ==
  Txn(id, "Legacy", 1, NULL, NULL, UNASSIGNED, UNASSIGNED, 1, "Completed")

\* the store after the sample statement was imported into one account, next
\* to a legacy row
InitAssign ==
  /\ \E a \in {1, 3} :
       /\ txns = ImportRows(InitAccounts(1)[a], SampleStatement, 1) \o <<LegacyRow(3)>>
       /\ accounts = SetBalance(InitAccounts(1), a, SampleStatement.closingBalance)
  /\ nextId = 4
  /\ statement = SampleStatement
  /\ last = NoRequest
  /\ NoSession

AssignCodes == {"L1", "E1", "I1", "X9"}
TxnIdInputs == 1..4              \* 4 is the id of no row

NextAssign ==
  \/ \E t \in TxnIdInputs, c \in AssignCodes, d \in BOOLEAN :
       AssignAccountToTransaction(t, c, d) /\ Direct
  \/ \E u \in Users, ids \in SUBSET TxnIds(txns), c \in AssignCodes :
       BulkAssignSmartPOST(u, ids, c) /\ Direct

SpecAssign == InitAssign /\ [][NextAssign]_vars

\* reconciliations and imports of the sample statement against a store that
\* may reject any statement
FailureAccountIds == {1, 3, 7}      \* A1, E1 and the id of no account

NextFailure ==
  \/ \E a \in FailureAccountIds, b \in Balances :
       CreateReconciliationTransaction(a, b) /\ Direct
  \/ \E a \in FailureAccountIds, b \in Balances, w \in 0..1 :
       CreateReconciliationTransactionStoreFailure(a, b, w) /\ Direct
  \/ \E a \in FailureAccountIds : ImportBankStatement(a) /\ Direct
  \/ \E a \in FailureAccountIds, w \in 0..(MaxLines + 1) :
       ImportBankStatementStoreFailure(a, w) /\ Direct

SpecFailure == Init /\ [][NextFailure]_vars

\* the bulk assignment on the store that InitAssign describes
NextBulk ==
  \/ \E ids \in SUBSET TxnIds(txns), c \in AssignCodes, d \in BOOLEAN,
        u \in Users, f \in BOOLEAN :
       BulkAssignAccountToTransactions(ids, c, d, u, f) /\ Direct
  \/ \E u \in Users, ids \in SUBSET TxnIds(txns), c \in AssignCodes,
        d \in BOOLEAN, f \in BOOLEAN :
       BulkAssignPOST(u, ids, c, d, f) /\ Direct

SpecBulk == InitAssign /\ [][NextBulk]_vars

\* two handlers assign accounts to the rows of an imported statement
RaceCodes == {"L1", "E1", "I1"}
RaceTxnIds == {1, 4}             \* a row with its credit leg '0', and no row

InitRace ==
  /\ accounts = SetBalance(InitAccounts(1), 1, SampleStatement.closingBalance)
  /\ txns = ImportRows(InitAccounts(1)[1], SampleStatement, 1)
  /\ nextId = 3
  /\ statement = SampleStatement
  /\ last = NoRequest
  /\ NoSession

NextRace ==
  \/ \E p \in Procs, t \in RaceTxnIds, c \in RaceCodes, d \in BOOLEAN :
       AssignCall(p, t, c, d)
  \/ \E p \in Procs : AssignSelectAccount(p)
  \/ \E p \in Procs : AssignSelectTransaction(p)
  \/ \E p \in Procs : AssignUpdate(p)
  \/ \E p \in Procs : AssignStoreFailure(p)

SpecRace == InitRace /\ [][NextRace]_vars

\* the three routes, requested by any sender, on a ledger that holds one
\* statement row of user 1's account A1
OwnerStatement ==
  [openingBalance |-> 1, closingBalance |-> 2,
   transactions |-> <<[amount |-> 1, type |-> "debit"]>>]

OwnerAccountIds == {0, 1, 3, 7}   \* no id, A1 of user 1, E1 of user 2, no account
OwnerTxnIds == {0, 1, 4}          \* no id, the row of A1, no row
OwnerCodes == {"", "L1", "E1"}

InitOwner ==
  /\ accounts = InitAccounts(1)
  /\ txns = StatementRows(<<[amount |-> 1, type |-> "debit"]>>, InitAccounts(1)[1], 0, 1)
  /\ nextId = 2
  /\ statement = OwnerStatement
  /\ last = NoRequest
  /\ NoSession

NextOwner ==
  \/ \E s \in Callers, a \in OwnerAccountIds, b \in Balances :
       ReconcilePOST(a, b) /\ SentBy(s)
  \/ \E s \in Callers, a \in OwnerAccountIds :
       ImportStatementPOST(a) /\ SentBy(s)
  \/ \E s \in Callers, t \in OwnerTxnIds, c \in OwnerCodes, d \in BOOLEAN :
       AssignAccountPOST(t, c, d) /\ SentBy(s)

SpecOwner == InitOwner /\ [][NextOwner]_vars

\* two handlers importing into the accounts A1 and L1, both created with
\* balance 0; no statement closes at 0, the first closes one cent below its
\* lines, which is within the tolerance
ImportRaceStatements ==
  {[openingBalance |-> 2, closingBalance |-> 1, transactions |-> <<>>],
   [openingBalance |-> 2, closingBalance |-> 2, transactions |-> <<>>],
   [openingBalance |-> 0, closingBalance |-> 1,
    transactions |-> <<[amount |-> 1, type |-> "debit"]>>]}

ImportRaceAccountIds == {1, 2}        \* A1 and L1

InitImportRace ==
  /\ accounts = InitAccounts(0)
  /\ txns = <<>>
  /\ nextId = 1
  /\ statement = SampleStatement
  /\ last = NoRequest
  /\ NoSession

NextImportRace ==
  \/ \E p \in Procs, a \in ImportRaceAccountIds, st \in ImportRaceStatements :
       ImportCall(p, a, st)
  \/ \E p \in Procs : ImportSelectAccount(p)
  \/ \E p \in Procs : ImportInsert(p)
  \/ \E p \in Procs : ImportUpdate(p)
  \/ \E p \in Procs : ImportStoreFailure(p)

SpecImportRace == InitImportRace /\ [][NextImportRace]_vars

\* the dialog, opened for any account of the store, on any statement within
\* the bounds
NextDialog == \E a \in DOMAIN accounts : HandleSubmit(a) /\ Direct

SpecDialog == InitImport /\ [][NextDialog]_vars

\* bulk deletions on the store that InitAssign describes; 4 is the id of no row
NextDelete ==
  \/ \E ids \in SUBSET TxnIdInputs, u \in Users, f \in BOOLEAN :
       BulkDeleteTransactions(ids, u, f) /\ Direct
  \/ \E u \in Users, ids \in SUBSET TxnIdInputs, f \in BOOLEAN :
       BulkDeleteDELETE(u, ids, f) /\ Direct

SpecDelete == InitAssign /\ [][NextDelete]_vars

\* the reports of both users on a ledger of dated rows.  User 1 holds an
\* asset, a liability, an income and an expense account, user 2 an expense
\* account and an inactive income account.
ReportAccounts ==
  InitAccounts(0) \o <<Acc("R1", {"income"},  {"income"},  1, 1, 1, 0),
                       Acc("X1", {"expense"}, {"expense"}, 1, 1, 1, 0)>>

\* debit and credit leg of the rows: a sale, a purchase, a refund of a sale,
\* a statement row with its other leg unassigned, an expense of user 2
ReportLegs ==
  {<<"A1", "R1">>, <<"X1", "A1">>, <<"R1", "A1">>, <<"A1", UNASSIGNED>>, <<"E1", "L1">>}

\* the rows belong to company 1, a sale may belong to company 2
ReportRows(id) ==
  {DatedRow(id, MaxAmt, legs[1], legs[2], 1, d) : legs \in ReportLegs, d \in {1, Today}}
    \cup {DatedRow(id, MaxAmt, "A1", "R1", 2, d) : d \in {1, Today}}

ReportLedgers ==
  {<<>>} \cup {<<r>> : r \in ReportRows(1)}
         \cup {<<r1, r2>> : r1 \in ReportRows(1), r2 \in ReportRows(2)}

TimeFrames == {NULL, {"hour"}, {"day"}, {"custom"}}
OptDays == {NULL, {1}, {Today}}
OptEntities == {NULL, {1}, {2}}       \* entity_id: absent, company 1, company 2

InitReports ==
  /\ accounts = ReportAccounts
  /\ txns \in ReportLedgers
  /\ nextId = 3
  /\ statement = SampleStatement
  /\ last = NoRequest
  /\ NoSession

NextReports ==
  \/ \E u \in Users, tf \in TimeFrames, sd \in {NULL, {1}}, ed \in {NULL, {Today}} :
       BalanceSheetGET(u, tf, sd, ed) /\ Direct
  \/ \E u \in Users, sd \in OptDays, ed \in OptDays, e \in OptEntities :
       ProfitLossGET(u, sd, ed, e) /\ Direct

SpecReports == InitReports /\ [][NextReports]_vars

\* the reports on the accounts A1 and X1 of user 1, on a ledger of purchases
\* paid from A1, refunds of them, receipts and statement rows of A1; a row is
\* of no amount (a statement line of amount 0 imported by a call of the
\* library) or of the greatest amount
AccountReportLegs ==
  {<<"A1", "X1">>, <<"X1", "A1">>, <<"A1", "R1">>, <<"A1", UNASSIGNED>>}

AccountReportRows(id) ==
  {DatedRow(id, amt, legs[1], legs[2], 1, d) :
     legs \in AccountReportLegs, amt \in {0, MaxAmt}, d \in {1, Today}}

RECURSIVE AccountReportLedgers(_)
AccountReportLedgers(n) ==
  IF n = 0 THEN {<<>>}
  ELSE AccountReportLedgers(n - 1)
         \cup {Append(l, r) : l \in {l \in AccountReportLedgers(n - 1) : Len(l) = n - 1},
                              r \in AccountReportRows(n)}

InitAccountReports ==
  /\ accounts = ReportAccounts
  /\ txns \in AccountReportLedgers(MaxTxns)
  /\ nextId = MaxTxns + 1
  /\ statement = SampleStatement
  /\ last = NoRequest
  /\ NoSession

ReportCodes == {"A1", "X1"}

NextAccountReports ==
  \/ \E c \in ReportCodes, l \in {1, 100} : GetTransactionsByAccountCode(c, l) /\ Direct
  \/ \E c \in ReportCodes, sd \in {NULL, {1}}, ed \in OptDays :
       GetTransactionSummaryByAccount(c, sd, ed) /\ Direct
  \/ \E c \in ReportCodes, sd \in {NULL, {1}}, ed \in OptDays :
       GetExpensesByCategory(c, sd, ed) /\ Direct

SpecAccountReports == InitAccountReports /\ [][NextAccountReports]_vars

\* account-creation requests on the store at start-up
NewCodes == {"", "0", "A1", "C1"}
NewCategories == {"", "asset", "income"}

NextAccounts ==
  \/ \E u \in Users, c \in NewCodes, al \in {"", "Cash"}, cat \in NewCategories,
        b \in {0, MaxBal}, f \in BOOLEAN :
       AccountsPOST(u, c, al, cat, b, f) /\ Direct

SpecAccounts == Init /\ [][NextAccounts]_vars

----------------------------------------------------------------------------
(* Properties *)

IsTyped(account) == account.account_type # NULL

\* section 4.2 of the specification: a debit increases asset and expense accounts
DebitIncreases(account) == account.account_type \in {{"asset"}, {"expense"}}

\* the rule table of section 4.1
RuleTable(side, otherType) ==
  CASE side = "credit" /\ otherType = {"income"}  -> "income"
    [] side = "credit" /\ otherType = {"expense"} -> "income"
    [] side = "debit"  /\ otherType = {"expense"} -> "expense"
    [] side = "debit"  /\ otherType = {"income"}  -> "expense"
    [] OTHER -> "transfer"

\* C1: for every side and every other-account type (NULL included),
\* classifyTransaction returns the value of the rule table of section 4.1.
C1_ClassifyMatchesTable ==
  last.op = "classify" =>
    last.classification = RuleTable(last.transactionType, last.otherAccountType)

C1_Witness ==
  /\ last.op = "classify"
  /\ last.transactionType = "debit"
  /\ last.otherAccountType = {"income"}
  /\ last.classification = "expense"

\* C2: reconciling an existing account with a bankBalance less than 0.01 away
\* from its stored balance inserts no row, leaves every account as it was and
\* reports success.
C2_ReconcileWithinTolerance ==
  [][(/\ last'.op = "reconcile"
      /\ last'.accountId \in DOMAIN accounts
      /\ Abs(last'.bankBalance - accounts[last'.accountId].balance) < Tolerance)
     => (/\ txns' = txns
         /\ nextId' = nextId
         /\ accounts' = accounts
         /\ last'.success
         /\ last'.transaction = NULL)]_vars

\* an account already moved by one reconciliation is reconciled again with
\* the balance it now has
C2_Witness ==
  /\ last.op = "reconcile"
  /\ last.accountId \in DOMAIN accounts
  /\ last.bankBalance = accounts[last.accountId].balance
  /\ last.success
  /\ last.transaction = NULL
  /\ \E i \in DOMAIN txns : accounts[last.accountId].code \in {txns[i].debitacc, txns[i].creditacc}

\* C3 (as claimed): a reconciliation with a difference of 0.01 or more inserts
\* exactly one row, the account's code sits on the leg that the direction rule
\* of section 4.2 gives (debit to increase an asset or expense account or to
\* decrease a liability, equity or income account, credit otherwise) with '0'
\* on the other leg, and the stored balance becomes bankBalance.
C3_ReconcileLegFollowsDirectionRule ==
  [][(/\ last'.op = "reconcile"
      /\ last'.accountId \in DOMAIN accounts
      /\ IsTyped(accounts[last'.accountId])
      /\ Abs(last'.bankBalance - accounts[last'.accountId].balance) >= Tolerance)
     => LET account == accounts[last'.accountId]
            increase == last'.bankBalance > account.balance
            onDebit == (DebitIncreases(account) = increase)
            row == txns'[Len(txns')]
        IN /\ Len(txns') = Len(txns) + 1
           /\ SubSeq(txns', 1, Len(txns)) = txns
           /\ row.debitacc = (IF onDebit THEN account.code ELSE UNASSIGNED)
           /\ row.creditacc = (IF onDebit THEN UNASSIGNED ELSE account.code)
           /\ accounts'[last'.accountId].balance = last'.bankBalance]_vars

StatementIsBalanced ==
  Abs(statement.openingBalance + SumAmounts(statement.transactions)
      - statement.closingBalance) <= Tolerance

\* C4: when openingBalance plus the sum of the line amounts is more than 0.01
\* away from closingBalance, the import fails and writes nothing: no row is
\* inserted and no account changes.
C4_UnbalancedImportWritesNothing ==
  [][(last'.op = "import" /\ ~StatementIsBalanced)
     => (/\ ~last'.success
         /\ txns' = txns
         /\ nextId' = nextId
         /\ accounts' = accounts)]_vars

C4_Witness ==
  /\ last.op = "import"
  /\ last.called
  /\ last.error = {"Statement doesn't balance"}
  /\ ~StatementIsBalanced
  /\ txns = <<>>

\* C5 (as claimed): when the account exists, has its account_type set and the
\* statement balances within 0.01, importStatement succeeds and the account's
\* stored balance becomes closingBalance.
C5_BalancedImportSetsClosing ==
  [][(/\ last'.op = "import"
      /\ last'.called
      /\ last'.accountId \in DOMAIN accounts
      /\ IsTyped(accounts[last'.accountId])
      /\ StatementIsBalanced)
     => (/\ last'.success
         /\ accounts'[last'.accountId].balance = statement.closingBalance)]_vars

IsOpeningAdjustment(row) == row.name = "Opening Balance Adjustment"

\* C6 (as claimed): a successful import inserts exactly one opening-balance
\* adjustment when |account.balance - openingBalance| >= 0.01 and none
\* otherwise, and the adjustment precedes every statement row of the import.
C6_OpeningAdjustmentAtTolerance ==
  [][(last'.op = "import" /\ last'.success)
     => LET account == accounts[last'.accountId]
            inserted == SubSeq(txns', Len(txns) + 1, Len(txns'))
            adjustments == {i \in DOMAIN inserted : IsOpeningAdjustment(inserted[i])}
        IN IF Abs(account.balance - statement.openingBalance) >= Tolerance
           THEN adjustments = {1}
           ELSE adjustments = {}]_vars

\* C7 (as claimed): after a successful import into an asset account, the
\* running-balance snapshot stamped on the last posted statement row equals
\* closingBalance within 0.01.
C7_LastSnapshotIsClosing ==
  (/\ last.op = "import"
   /\ last.success
   /\ accounts[last.accountId].account_type = {"asset"}
   /\ statement.transactions # <<>>)
  => LET row == last.transactions[Len(last.transactions)]
     IN \A v \in row.balancedebit \cup row.balancecredit :
          Abs(v - statement.closingBalance) <= Tolerance

TargetLeg(row, isDebit) == IF isDebit THEN row.debitacc ELSE row.creditacc

\* C8: an assignAccount call on an existing transaction is rejected and
\* changes no row when the targeted leg is already non-'0'; when the targeted
\* leg is '0' and the account is active it succeeds, sets exactly that leg to
\* accountCode and leaves the other leg and every other row as they were.
C8_AssignFillsOnlyEmptyLeg ==
  [][(last'.op = "assign" /\ last'.transactionId \in TxnIds(txns))
     => LET id == last'.transactionId
            code == last'.assignedAccountCode
            isDebit == last'.isDebitAccount
            row == RowOf(txns, id)
        IN /\ TargetLeg(row, isDebit) # UNASSIGNED
                => (~last'.success /\ txns' = txns)
           /\ (/\ TargetLeg(row, isDebit) = UNASSIGNED
               /\ \E a \in DOMAIN accounts :
                    accounts[a].code = code /\ accounts[a].active = 1)
                => /\ last'.success
                   /\ DOMAIN txns' = DOMAIN txns
                   /\ \A i \in DOMAIN txns :
                        IF txns[i].id # id THEN txns'[i] = txns[i]
                        ELSE IF isDebit
                             THEN txns'[i] = [txns[i] EXCEPT !.debitacc = code]
                             ELSE txns'[i] = [txns[i] EXCEPT !.creditacc = code]
           /\ accounts' = accounts]_vars

\* a second call on a leg that an earlier call filled is rejected
C8_Witness ==
  /\ last.op = "assign"
  /\ ~last.success
  /\ last.error = {"Credit account is already assigned"}
  /\ last.assignedAccountCode = "E1"
  /\ \E i \in DOMAIN txns :
       /\ txns[i].id = last.transactionId
       /\ txns[i].creditacc = "L1"
       /\ txns[i].debitacc = "A1"

\* C9: assignAccount is rejected and changes no row whenever accountCode is
\* not the code of an account whose active flag is 1, whatever the legs of
\* the transaction hold.
C9_AssignNeedsActiveAccount ==
  [][(/\ last'.op = "assign"
      /\ ~\E a \in DOMAIN accounts :
            accounts[a].code = last'.assignedAccountCode /\ accounts[a].active = 1)
     => (/\ ~last'.success
         /\ txns' = txns
         /\ accounts' = accounts)]_vars

\* the soft-deleted account I1 is refused for a leg that is still '0'
C9_Witness ==
  /\ last.op = "assign"
  /\ last.assignedAccountCode = "I1"
  /\ ~last.success
  /\ last.transactionId \in TxnIds(txns)
  /\ TargetLeg(RowOf(txns, last.transactionId), last.isDebitAccount) = UNASSIGNED

EmptyLegs(row) ==
  {l \in Sides : (IF l = "debit" THEN row.debitacc ELSE row.creditacc) = UNASSIGNED}

\* C10: a smart bulk assignment that is let through handles every accessible
\* selected row so: with exactly one leg '0' it sets that leg, and only that
\* leg, to the assigned code; with both legs filled or both '0' it counts the
\* row as skipped and leaves it as it was; the batch reports success.
C10_SmartAssignFillsSingleEmptyLeg ==
  [][(/\ last'.op = "smart"
      /\ SmartAccountRows(last'.assignedAccountCode, last'.user) # {}
      /\ SmartTransactionRows(last'.transactionIds, last'.user) # {})
     => LET code == last'.assignedAccountCode
            rows == SmartTransactionRows(last'.transactionIds, last'.user)
            skipped == {i \in rows : Cardinality(EmptyLegs(txns[i])) # 1}
        IN /\ last'.success
           /\ last'.skippedCount = Cardinality(skipped)
           /\ last'.updatedCount = Cardinality(rows \ skipped)
           /\ DOMAIN txns' = DOMAIN txns
           /\ \A i \in rows :
                IF i \in skipped THEN txns'[i] = txns[i]
                ELSE IF EmptyLegs(txns[i]) = {"debit"}
                     THEN txns'[i] = [txns[i] EXCEPT !.debitacc = code]
                     ELSE txns'[i] = [txns[i] EXCEPT !.creditacc = code]]_vars

\* one batch holds a row that gets its leg, a row with both legs filled and
\* a row with no leg filled
C10_Witness ==
  /\ last.op = "smart"
  /\ last.success
  /\ last.updatedCount = 1
  /\ last.skippedCount = 2
  /\ \E i, j, k \in DOMAIN txns :
       /\ {txns[i].id, txns[j].id, txns[k].id} \subseteq last.transactionIds
       /\ EmptyLegs(txns[i]) = {"debit", "credit"}
       /\ EmptyLegs(txns[j]) = {} /\ txns[j].creditacc = "L1"
       /\ EmptyLegs(txns[k]) = {} /\ txns[k].debitacc = last.assignedAccountCode
       /\ last.assignedAccountCode = "E1"

\* C11 (as claimed): a bulk assignment never changes a targeted leg that is
\* already non-'0': the selected rows whose target leg is filled stay as they
\* were, while the selected rows of the user whose target leg is '0' get the
\* assigned code on that leg.
C11_BulkAssignSkipsFilledLegs ==
  [][(last'.op = "bulk" /\ last'.called /\ last'.error = NULL)
     => LET isDebit == last'.isDebitAccount
            selected == {i \in DOMAIN txns : txns[i].id \in last'.transactionIds}
        IN /\ DOMAIN txns' = DOMAIN txns
           /\ \A i \in selected :
                TargetLeg(txns[i], isDebit) # UNASSIGNED => txns'[i] = txns[i]
           /\ \A i \in BulkOwnedRows(last'.transactionIds, last'.userId) :
                TargetLeg(txns[i], isDebit) = UNASSIGNED
                  => TargetLeg(txns'[i], isDebit) = last'.assignedAccountCode]_vars

LedgerOperations == {"reconcile", "import", "assign", "bulk"}

\* the operation did not do what it was asked to do
OperationFailed(result) ==
  IF "success" \in DOMAIN result THEN ~result.success ELSE result.error # NULL

\* C16 (as claimed): no ledger operation lets an exception reach its caller;
\* a failure, a store failure and a not-found or access-denied condition
\* included, is a returned value with success = false and an error.
C16_FailuresAreReturnedValues ==
  (last.op \in LedgerOperations /\ OperationFailed(last))
    => /\ "thrown" \in DOMAIN last => ~last.thrown
       /\ "success" \in DOMAIN last
       /\ last.success = FALSE
       /\ last.error # NULL

\* the two rows post the same line: same legs, same amounts, not the same id
SameLine(first, second) ==
  /\ first.debitacc = second.debitacc
  /\ first.creditacc = second.creditacc
  /\ first.debit = second.debit
  /\ first.credit = second.credit
  /\ first.id # second.id

\* the statement rows of an import, its opening adjustment left out
LineRows(rows) == SubSeq(rows, Len(rows) - Len(statement.transactions) + 1, Len(rows))

\* C12: importStatement is not idempotent: a second call with the identical
\* payload right after a successful first call succeeds again and inserts
\* every statement line once more, so the ledger then holds two rows per
\* statement line.
C12_ReplayPostsEveryLineAgain ==
  [][(/\ last.op = "import" /\ last.success
      /\ last'.op = "import" /\ last'.called
      /\ last'.accountId = last.accountId)
     => /\ last'.success
        /\ txns' = txns \o last'.transactions
        /\ Len(last'.transactions) >= Len(statement.transactions)
        /\ \A k \in DOMAIN statement.transactions :
             /\ LineRows(last.transactions)[k] \in {txns'[i] : i \in DOMAIN txns'}
             /\ LineRows(last'.transactions)[k] \in {txns'[i] : i \in DOMAIN txns'}
             /\ SameLine(LineRows(last.transactions)[k],
                         LineRows(last'.transactions)[k])]_vars

\* one statement line, posted by the first call and again by the replay
C12_Witness ==
  /\ last.op = "import" /\ last.success
  /\ Len(statement.transactions) = 1
  /\ Len(txns) = 2
  /\ SameLine(txns[1], txns[2])
  /\ txns[1].name = "Statement Line" /\ txns[2].name = "Statement Line"
  /\ txns[2] = last.transactions[1]

RECURSIVE NetOfLegs(_, _)
\* the net of the legs of the ledger that touch the account's code, a leg
\* counting up when it is on the side that increases the account's type
NetOfLegs(account, ledger) ==
  IF ledger = <<>> THEN 0
  ELSE LET row == Head(ledger)
           onDebit == IF row.debitacc = account.code THEN row.debit ELSE 0
           onCredit == IF row.creditacc = account.code THEN row.credit ELSE 0
       IN (IF DebitIncreases(account) THEN onDebit - onCredit
                                      ELSE onCredit - onDebit)
          + NetOfLegs(account, Tail(ledger))

LedgerIsConsistent ==
  \A a \in DOMAIN accounts :
    IsTyped(accounts[a]) => accounts[a].balance = NetOfLegs(accounts[a], txns)

\* C14 (as claimed): when every account's stored balance equals the net of
\* the legs touching its code under its account type's increase direction,
\* the equality still holds for every account after a successful reconcile or
\* importStatement.
C14_BalanceIsNetOfLegs ==
  [][(/\ LedgerIsConsistent
      /\ last'.op \in {"reconcile", "import"}
      /\ last'.success)
     => LedgerIsConsistent']_vars

MissingTypeError == {"Account type is not set"}

\* C15 (as claimed): importStatement on an existing account whose account_type
\* is null fails with the missing-account-type error and writes nothing,
\* whatever its category holds; and it never fails with that error when
\* account_type is set.
C15_MissingTypeErrorIffTypeNull ==
  [][(/\ last'.op = "import"
      /\ last'.called
      /\ last'.accountId \in DOMAIN accounts)
     => IF IsTyped(accounts[last'.accountId])
        THEN last'.error # MissingTypeError
        ELSE /\ last'.error = MissingTypeError
             /\ txns' = txns
             /\ accounts' = accounts]_vars

C19_OneRowPerStatementLine ==
  [][(last'.op = "import" /\ last'.success)
     => LET account == accounts[last'.accountId]
            lines == statement.transactions
            inserted == last'.transactions
            adjustments == {i \in DOMAIN inserted : IsOpeningAdjustment(inserted[i])}
            rows == SubSeq(inserted, Cardinality(adjustments) + 1, Len(inserted))
        IN /\ txns' = txns \o inserted
           /\ adjustments \subseteq {1}
           /\ Len(rows) = Len(lines)
           /\ \A k \in DOMAIN lines :
                LET isDebit == lines[k].type = "debit"
                    magnitude == IF lines[k].amount < 0 THEN 0 - lines[k].amount
                                                        ELSE lines[k].amount
                IN /\ rows[k].debitacc = (IF isDebit THEN account.code ELSE UNASSIGNED)
                   /\ rows[k].creditacc = (IF isDebit THEN UNASSIGNED ELSE account.code)
                   /\ rows[k].debit = magnitude
                   /\ rows[k].credit = magnitude]_vars

\* a debit line and a credit line, posted in that order
C19_Witness ==
  /\ last.op = "import" /\ last.success
  /\ Len(statement.transactions) = 2
  /\ statement.transactions[1].type = "debit"
  /\ statement.transactions[2].type = "credit"
  /\ Len(txns) = 2
  /\ txns[1].debitacc = "E1" /\ txns[1].creditacc = UNASSIGNED
  /\ txns[2].creditacc = "E1" /\ txns[2].debitacc = UNASSIGNED
  /\ txns[1].id < txns[2].id

\* the balance the operation was asked to store
RequestedBalance(request) ==
  IF request.op = "reconcile" THEN request.bankBalance ELSE statement.closingBalance

\* C13 (as claimed): reconcile and importStatement are atomic: after the
\* call, a call during which the store rejected a write included, either all
\* of the operation's rows are inserted and its balance update is made, or no
\* row is inserted and no account is changed.
C13_ReconcileAndImportAreAtomic ==
  [][(last'.op \in {"reconcile", "import"})
     => \/ txns' = txns /\ accounts' = accounts
        \/ /\ last'.success
           /\ accounts'[last'.accountId].balance = RequestedBalance(last')]_vars

\* the two calls have returned success for the same leg of the same row
BothSucceeded(p, q) ==
  /\ p # q
  /\ calls[p].pc = "returned" /\ calls[q].pc = "returned"
  /\ calls[p].success /\ calls[q].success
  /\ calls[p].transactionId = calls[q].transactionId
  /\ calls[p].isDebitAccount = calls[q].isDebitAccount
  /\ calls[p].assignedAccountCode # calls[q].assignedAccountCode

\* C20 (as claimed): under every interleaving of two assignAccount calls on
\* the same '0' leg of the same row with different codes, at most one call
\* reports success, and a leg that holds a non-'0' code is never replaced.
C20_ConcurrentAssignsDoNotOverwrite ==
  [][/\ \A p, q \in Procs : ~BothSucceeded(p, q)'
     /\ \A i \in DOMAIN txns :
          /\ txns[i].debitacc # UNASSIGNED => txns'[i].debitacc = txns[i].debitacc
          /\ txns[i].creditacc # UNASSIGNED => txns'[i].creditacc = txns[i].creditacc]_vars

\* the account's user column names the sender
OwnsAccount(sender, account) == sender = {account.user}

\* an account of the sender is on a leg of the row
TouchesAccountOf(sender, row) ==
  \E a \in DOMAIN accounts :
    /\ OwnsAccount(sender, accounts[a])
    /\ accounts[a].code \in {row.debitacc, row.creditacc}

\* C17 (as claimed): a reconcile or importStatement request on an account
\* the sender does not own, and an assignAccount request on a transaction
\* that touches none of the sender's accounts, is rejected and changes
\* nothing.
C17_ForeignRequestsAreRejected ==
  [][/\ (/\ last'.op \in {"reconcile", "import"}
         /\ last'.accountId \in DOMAIN accounts
         /\ ~OwnsAccount(caller', accounts[last'.accountId]))
        => (~last'.success /\ txns' = txns /\ accounts' = accounts)
     /\ (/\ last'.op = "assign"
         /\ last'.transactionId \in TxnIds(txns)
         /\ ~TouchesAccountOf(caller', RowOf(txns, last'.transactionId)))
        => (~last'.success /\ txns' = txns /\ accounts' = accounts)]_vars

\* C22 (as claimed): once both legs of a transaction are non-'0', no ledger
\* operation changes its debitacc or its creditacc.
C22_CompleteLegsNeverChange ==
  [][\A i \in DOMAIN txns :
       EmptyLegs(txns[i]) = {}
         => \A j \in DOMAIN txns' :
              txns'[j].id = txns[i].id
                => /\ txns'[j].debitacc = txns[i].debitacc
                   /\ txns'[j].creditacc = txns[i].creditacc]_vars

\* C28 (as claimed): a result of reconcile, importStatement or assignAccount
\* carries an error reason if and only if its success flag is false.
C28_ErrorIffNotSuccess ==
  last.op \in {"reconcile", "import", "assign"}
    => ((last.error # NULL) <=> ~last.success)

\* C30 (as claimed): no account has the code '0', whatever account-creation
\* requests were served, so the sentinel of an unassigned leg is the code of
\* no account.
C30_NoAccountHasSentinelCode ==
  \A a \in DOMAIN accounts : accounts[a].code # UNASSIGNED

\* C23: a bulk deletion that is carried out removes exactly the listed rows
\* that have a leg equal to the code of an account of userId; the listed rows
\* that touch none of the user's accounts and all unlisted rows stay, and
\* deletedCount is the number of rows removed.  A deletion that fails removes
\* nothing.
C23_BulkDeleteRemovesOwnedListedRows ==
  [][(last'.op = "delete" /\ last'.called)
     => LET doomed == {i \in DOMAIN txns :
                         /\ txns[i].id \in last'.transactionIds
                         /\ \E a \in DOMAIN accounts :
                              /\ accounts[a].user = last'.userId
                              /\ accounts[a].code \in {txns[i].debitacc, txns[i].creditacc}}
        IN IF last'.error # NULL
           THEN txns' = txns /\ last'.deletedCount = 0
           ELSE /\ {txns'[j] : j \in DOMAIN txns'} = {txns[i] : i \in DOMAIN txns \ doomed}
                /\ Len(txns') = Len(txns) - Cardinality(doomed)
                /\ last'.deletedCount = Cardinality(doomed)
                /\ accounts' = accounts]_vars

\* user 1 lists its row 1 and the legacy row 3: row 1 goes, row 3 and the
\* unlisted row 2 stay
C23_Witness ==
  /\ last.op = "delete"
  /\ last.userId = 1
  /\ last.transactionIds = {1, 3}
  /\ last.deletedCount = 1
  /\ TxnIds(txns) = {2, 3}

\* C29: a statement that the dialog posts is not refused by the route or by
\* importBankStatement for its lines or its balance.
C29_DialogAcceptedIsAccepted ==
  (last.op = "import" /\ last.via = "dialog")
    => last.error \notin {{"Statement doesn't balance"},
                          {"Transaction amount must be positive"},
                          {"At least one transaction is required"}}

\* the call of handler p returns success in this step
ImportSucceeds(p) ==
  calls[p].pc # "returned" /\ calls'[p].pc = "returned" /\ calls'[p].success

\* C21: under every interleaving of two imports, a call that succeeds leaves
\* its account with the closing balance of its own statement, and an
\* account's balance changes only in the step in which an import into that
\* very account succeeds (so the last balance UPDATE wins, and an import
\* never changes the balance of another account).
C21_LastBalanceUpdateWins ==
  [][/\ \A p \in Procs : ImportSucceeds(p)
          => accounts'[calls[p].accountId].balance = calls[p].statement.closingBalance
     /\ \A a \in DOMAIN accounts : accounts'[a] # accounts[a]
          => \E p \in Procs : /\ ImportSucceeds(p)
                              /\ calls[p].accountId = a
                              /\ accounts'[a] = [accounts[a] EXCEPT
                                   !.balance = calls[p].statement.closingBalance]]_vars

\* both handlers imported into A1 and succeeded, both read the balance 0 the
\* account was created with and posted an opening adjustment from it, and
\* the account holds the closing balance of one of them
C21_Witness ==
  /\ \A p \in Procs : /\ calls[p].pc = "returned"
                      /\ calls[p].success
                      /\ calls[p].accountId = 1
                      /\ calls[p].balanceRead = {0}
                      /\ Len(calls[p].transactions) = 1
                      /\ IsOpeningAdjustment(calls[p].transactions[1])
  /\ calls[1].statement.closingBalance = 1
  /\ calls[2].statement.closingBalance = 2
  /\ accounts[1].balance = 1
  /\ Len(txns) = 2

\* the balance section 4.2 gives an account over the rows the report joins
\* to it: complete rows with a leg on the account
RuleBalance(account) ==
  NetOfLegs(account, SelectSeq(txns, LAMBDA row :
    /\ account.code \in {row.debitacc, row.creditacc}
    /\ row.debitacc # UNASSIGNED /\ row.creditacc # UNASSIGNED))

\* C24 (as claimed): in a balance sheet requested without a date filter, the
\* balance of every typed account is the sum of its legs in the direction of
\* section 4.2: debit legs add and credit legs subtract for asset and expense
\* accounts, the reverse for liability, equity and income accounts.
C24_BalanceSheetFollowsDirectionRule ==
  (last.op = "balanceSheet" /\ last.dateFilter = "")
    => \A r \in last.rows :
         IsTyped(accounts[r.id]) => r.balance = RuleBalance(accounts[r.id])

\* the codes of the active accounts of a user
ActiveCodesOf(user) ==
  {accounts[a].code : a \in {a \in DOMAIN accounts :
                               accounts[a].user = user /\ accounts[a].active = 1}}

\* C26 (as claimed): the balance sheet has one row for every active account
\* of the requesting user and no other row, with or without a date filter.
C26_BalanceSheetListsOwnActiveAccounts ==
  last.op = "balanceSheet"
    => /\ {r.code : r \in last.rows} = ActiveCodesOf(last.user)
       /\ Cardinality(last.rows) = Cardinality(ActiveCodesOf(last.user))

\* the net of an income or expense account over the rows dated within the
\* period of the request
PeriodNet(account) ==
  NetOfLegs(account, SelectSeq(txns, LAMBDA row :
    /\ account.code \in {row.debitacc, row.creditacc}
    /\ \A s \in last.startDate : row.fecha >= s
    /\ \A e \in last.endDate : row.fecha <= e))

\* the active income and expense accounts of a user
ProfitLossAccountsOf(user) ==
  {a \in DOMAIN accounts : /\ accounts[a].user = user
                           /\ accounts[a].active = 1
                           /\ accounts[a].account_type \in {{"income"}, {"expense"}}}

\* C25 (as claimed): a profit-and-loss report lists only active income and
\* expense accounts of the caller; requested without an entity it lists
\* exactly those whose net over the rows of the period is not zero, each with
\* that net (credits minus debits for income, debits minus credits for
\* expense); net_profit is total_income minus total_expenses.
C25_ProfitLossListsNonZeroNets ==
  (last.op = "profitLoss" /\ last.status = 200)
    => LET listed == last.income_accounts \cup last.expense_accounts
       IN /\ {r.id : r \in listed} \subseteq ProfitLossAccountsOf(last.user)
          /\ last.entityId = NULL
               => /\ {r.id : r \in listed} =
                       {a \in ProfitLossAccountsOf(last.user) : PeriodNet(accounts[a]) # 0}
                  /\ \A r \in listed : r.total_balance = PeriodNet(accounts[r.id])
          /\ last.net_profit = last.total_income - last.total_expenses

RECURSIVE SumOfTotalAmount(_)
SumOfTotalAmount(expenses) ==
  IF expenses = {} THEN 0
  ELSE LET e == CHOOSE e \in expenses : TRUE
       IN e.totalAmount + SumOfTotalAmount(expenses \ {e})

RECURSIVE SumOfTransactionCount(_)
SumOfTransactionCount(expenses) ==
  IF expenses = {} THEN 0
  ELSE LET e == CHOOSE e \in expenses : TRUE
       IN e.transactionCount + SumOfTransactionCount(expenses \ {e})

\* the transactions of the listing, at its default limit, that are dated
\* within the range of the request and classified as expense
ListedExpenses(accountCode, startDate, endDate) ==
  LET listing == getTransactionsByAccountCode(accountCode, 100, 0)
  IN {listing[i].id : i \in {i \in DOMAIN listing :
        /\ listing[i].classification = "expense"
        /\ (startDate # NULL /\ endDate # NULL)
             => /\ \A d \in startDate : listing[i].fecha >= d
                /\ \A d \in endDate : listing[i].fecha <= d}}

\* the breakdown just returned agrees with the summary and the listing of the
\* same account and range
ReportsAgree ==
  LET summary == getTransactionSummaryByAccount(last.accountCode, last.startDate, last.endDate)
      listed == ListedExpenses(last.accountCode, last.startDate, last.endDate)
  IN /\ SumOfTotalAmount(last.expenses) = summary.totalExpenses
     /\ SumOfTransactionCount(last.expenses) = summary.expenseTransactions
     /\ summary.expenseTransactions = Cardinality(listed)

====
